---- MODULE Spec2Model ----
(***************************************************************************)
(* Model of the native RASP detection engine                               *)
(*   raspmodule/src/main/cpp/native-lib.cpp        (plain detectors)       *)
(*   raspmodule/src/main/cpp/native-obfuscator.cpp (obfuscated wrappers)   *)
(*                                                                         *)
(* Text is a sequence of one-character strings.  A file is either absent   *)
(* (fopen returns NULL) or a sequence of lines, each ending in "\n"; the   *)
(* detectors read it with fgets into a fixed buffer, so a line longer      *)
(* than the buffer reaches the scan in several pieces.                     *)
(*                                                                         *)
(* The process is a record 'proc' (traced state, dumpable flag, the        *)
(* debugger_detected latch, signal dispositions, run state).  Every JNI    *)
(* entry point is a small step function over (thread record, proc): one    *)
(* step per system call, so that calls on two threads interleave at        *)
(* system-call granularity.                                                *)
(***************************************************************************)
EXTENDS Integers, Sequences, FiniteSets, TLC

VARIABLES
    env,    \* facts of the environment, fixed for a run
    fs,     \* the files the detectors read, and the code window they scan
    proc,   \* the process: kernel-side and global state
    th,     \* per thread: the call in progress and its locals
    gh,     \* per thread: observations about the call (for the properties)
    obs     \* process-wide observations (for the properties)

vars == <<env, fs, proc, th, gh, obs>>

(***************************************************************************)
(* Bounds                                                                  *)
(***************************************************************************)
\* clock readings are 0..MaxClock (the obfuscator takes count() % 3)
MaxClock == 2
\* TracerPid fixture values are digit strings of 1..MaxDigits digits
MaxDigits == 3
\* mount-table fixtures hold up to MaxMounts entries
MaxMounts == 2
\* memory-map fixtures hold up to MaxRegions regions
MaxRegions == 2
\* most regions of one kind in a memory-map fixture of the region audit
MaxWx == 7
\* most child processes the process may have at once (its process limit)
MaxChildren == 3

Threads == {"main", "worker"}

(***************************************************************************)
(* Text literals                                                           *)
(***************************************************************************)
NL == "\n"
TAB == "\t"
S_TracerPid == <<"T","r","a","c","e","r","P","i","d",":">>
S_Name == <<"N","a","m","e",":",TAB,"a","p","p",NL>>
S_PPid == <<"P","P","i","d",":",TAB,"6","1","2",NL>>
S_Uid == <<"U","i","d",":",TAB,"1","0","1","2","3",NL>>
S_system == <<"/","s","y","s","t","e","m">>
S_rw == <<"r","w">>
S_frida == <<"f","r","i","d","a">>
S_xposed == <<"x","p","o","s","e","d">>
S_substrate == <<"s","u","b","s","t","r","a","t","e">>
S_cydia == <<"c","y","d","i","a">>
S_r_xp == <<"r","-","x","p">>
S_rwxp == <<"r","w","x","p">>
S_libhook == <<"l","i","b","h","o","o","k">>

Digit == {"0","1","2","3","4","5","6","7","8","9"}
DigitVal(c) ==
    CASE c = "0" -> 0 [] c = "1" -> 1 [] c = "2" -> 2 [] c = "3" -> 3
      [] c = "4" -> 4 [] c = "5" -> 5 [] c = "6" -> 6 [] c = "7" -> 7
      [] c = "8" -> 8 [] c = "9" -> 9

\* isspace() of the C locale
IsSpace(c) == c \in {" ", TAB, NL, "\r", "\f"}

(***************************************************************************)
(* libc helpers, as the detectors use them                                 *)
(***************************************************************************)
\* strstr(hay, needle) != NULL
strstr(hay, needle) ==
    \E i \in 1..(Len(hay) - Len(needle) + 1) :
        SubSeq(hay, i, i + Len(needle) - 1) = needle

\* strncmp(line, s, n) == 0, for n <= Len(s)
strncmp0(line, s, n) ==
    /\ Len(line) >= n
    /\ SubSeq(line, 1, n) = SubSeq(s, 1, n)

\* the text from offset k on (line + k)
From(line, k) == SubSeq(line, k + 1, Len(line))

RECURSIVE SkipSpace(_)
SkipSpace(s) ==
    IF s # <<>> /\ IsSpace(Head(s)) THEN SkipSpace(Tail(s)) ELSE s

RECURSIVE DigitsValue(_, _)
DigitsValue(s, acc) ==
    IF s # <<>> /\ Head(s) \in Digit
        THEN DigitsValue(Tail(s), acc * 10 + DigitVal(Head(s)))
        ELSE acc

\* atoi: leading white space, an optional sign, then decimal digits up to the
\* first other character (values stay below 2^31 within MaxDigits)
atoi(s) ==
    LET t == SkipSpace(s) IN
    IF t # <<>> /\ Head(t) = "-" THEN 0 - DigitsValue(Tail(t), 0)
    ELSE IF t # <<>> /\ Head(t) = "+" THEN DigitsValue(Tail(t), 0)
    ELSE DigitsValue(t, 0)

\* a file that cannot be opened, and a file holding lines
NoFile == [kind |-> "absent"]
File(lines) == [kind |-> "file", lines |-> lines]
fopen(f) == f.kind = "file"

\* fgets(buf, size, fp) over one line: pieces of at most size-1 characters
RECURSIVE Pieces(_, _)
Pieces(line, size) ==
    IF Len(line) <= size - 1 THEN <<line>>
    ELSE <<SubSeq(line, 1, size - 1)>> \o Pieces(From(line, size - 1), size)

\* the successive results of fgets(buf, size, fp) until end of file
RECURSIVE fgets(_, _)
fgets(lines, size) ==
    IF lines = <<>> THEN <<>>
    ELSE Pieces(Head(lines), size) \o fgets(Tail(lines), size)

(***************************************************************************)
(* Program constants                                                       *)
(***************************************************************************)
\* char line[256] of the status readers
STATUS_LINE == 256
\* char line[1024] of the mount-table and memory-map readers
LINE_SIZE == 1024
\* size_t scan_size = 4096
scan_size == 4096
\* strncmp(line, "TracerPid:", 10) and atoi(line + 10)
TRACER_PREFIX == 10
\* if (writable_executable_count > 5)
WX_THRESHOLD == 5

su_paths == << "/system/bin/su", "/system/xbin/su", "/system/sbin/su",
               "/vendor/bin/su", "/sbin/su" >>
suspicious_libs == << S_frida, S_xposed, S_substrate, S_cydia, S_libhook >>

(***************************************************************************)
(* The file-reading detectors, as functions of the file they read.         *)
(* Each yields [ret, miss]: the jboolean returned, and whether the         *)
(* evidence source was missing (fopen failed).                             *)
(***************************************************************************)
\* a variant that converts from one character too early: atoi(line + 9)
RECURSIVE TracerPidLoop_offset9(_)
TracerPidLoop_offset9(pieces) ==
    IF pieces = <<>> THEN FALSE
    ELSE IF strncmp0(Head(pieces), S_TracerPid, TRACER_PREFIX)
        THEN atoi(From(Head(pieces), TRACER_PREFIX - 1)) # 0
        ELSE TracerPidLoop_offset9(Tail(pieces))

\* the while (fgets(...)) loop of nativeDebuggerCheck over the pieces read
RECURSIVE TracerPidLoop(_)
TracerPidLoop(pieces) ==
    IF pieces = <<>> THEN FALSE
    ELSE IF strncmp0(Head(pieces), S_TracerPid, TRACER_PREFIX)
        THEN atoi(From(Head(pieces), TRACER_PREFIX)) # 0
        ELSE TracerPidLoop(Tail(pieces))

nativeDebuggerCheck(status) ==
    IF ~fopen(status) THEN [ret |-> FALSE, miss |-> TRUE]
    ELSE [ret |-> TracerPidLoop(fgets(status.lines, STATUS_LINE)), miss |-> FALSE]

\* access(path, F_OK) == 0
access(path) == path \in fs.exists

nativeRootCheck(mounts) ==
    IF \E i \in 1..Len(su_paths) : access(su_paths[i])
        THEN [ret |-> TRUE, miss |-> FALSE]
    ELSE IF ~fopen(mounts) THEN [ret |-> FALSE, miss |-> TRUE]
    ELSE LET pieces == fgets(mounts.lines, LINE_SIZE) IN
         [ret |-> \E k \in 1..Len(pieces) :
                      strstr(pieces[k], S_system) /\ strstr(pieces[k], S_rw),
          miss |-> FALSE]

nativeHookCheck(maps) ==
    IF ~fopen(maps) THEN [ret |-> FALSE, miss |-> TRUE]
    ELSE LET pieces == fgets(maps.lines, LINE_SIZE) IN
         [ret |-> \E k \in 1..Len(pieces) : \E i \in 1..Len(suspicious_libs) :
                      strstr(pieces[k], suspicious_libs[i]),
          miss |-> FALSE]

\* nativeMemoryCheck: writable_executable_count is the number of pieces fgets
\* delivers that hold "r-xp" or "rwxp" and hold "rwxp"; JNI_TRUE when it
\* exceeds WX_THRESHOLD
writable_executable_count(pieces) ==
    Cardinality({k \in 1..Len(pieces) :
        /\ (strstr(pieces[k], S_r_xp) \/ strstr(pieces[k], S_rwxp))
        /\ strstr(pieces[k], S_rwxp)})

nativeMemoryCheck(maps) ==
    IF ~fopen(maps) THEN [ret |-> FALSE, miss |-> TRUE]
    ELSE [ret |-> writable_executable_count(fgets(maps.lines, LINE_SIZE)) > WX_THRESHOLD,
          miss |-> FALSE]

\* sscanf(line, "TracerPid: %d", &pid): the literal must start the line, white
\* space is skipped, then an optional sign and digits; n = 0 leaves pid unwritten
sscanf_TracerPid(line) ==
    IF ~strncmp0(line, S_TracerPid, TRACER_PREFIX) THEN [n |-> 0, pid |-> 0]
    ELSE LET t == SkipSpace(From(line, TRACER_PREFIX))
             neg == t # <<>> /\ Head(t) = "-"
             d == IF t # <<>> /\ Head(t) \in {"-", "+"} THEN Tail(t) ELSE t
         IN  IF d # <<>> /\ Head(d) \in Digit
                 THEN [n |-> 1, pid |-> IF neg THEN 0 - DigitsValue(d, 0)
                                               ELSE DigitsValue(d, 0)]
                 ELSE [n |-> 0, pid |-> 0]

\* branch 1 of check_debugger_obfuscated; junk is what the unwritten int pid holds
ObfuscatedTracerPid(status, junk) ==
    IF ~fopen(status) THEN [ret |-> FALSE, miss |-> TRUE]
    ELSE LET pieces == fgets(status.lines, STATUS_LINE) IN
         [ret |-> \E k \in 1..Len(pieces) :
                      /\ strstr(pieces[k], S_TracerPid)
                      /\ LET r == sscanf_TracerPid(pieces[k]) IN
                         (IF r.n = 1 THEN r.pid ELSE junk) # 0,
          miss |-> FALSE]

(***************************************************************************)
(* The breakpoint scan.  The code window is a fill byte and a few patched  *)
(* offsets; memory[i] reads it.  Bytes past the window hold the fill.      *)
(***************************************************************************)
memory(i) == IF i \in DOMAIN fs.code.patch THEN fs.code.patch[i] ELSE fs.code.fill

\* (*(uint32_t*)(memory + i) & 0xFFF000F0) == 0xE1200070, little-endian:
\* byte 3 is E1, the high nibble of byte 2 is 2, the high nibble of byte 0 is 7
ArmBreakpointAt(i) ==
    /\ memory(i + 3) = 225
    /\ memory(i + 2) \div 16 = 2
    /\ memory(i) \div 16 = 7

\* one iteration of the scan loop finds a breakpoint at offset i
BreakpointAt(i) ==
    \/ memory(i) = 204
    \/ (i < scan_size - 3 /\ ArmBreakpointAt(i))

nativeBreakpointScan ==
    [ret |-> \E i \in 0..(scan_size - 1) : BreakpointAt(i), miss |-> FALSE]

\* memory + i is not 4-byte aligned from i = 1 on, so reading a uint32_t
\* through it is undefined: the build either performs the unaligned load or
\* takes an alignment fault at the first such read (the loop has not returned
\* at i = 0)
UnalignedFault == fs.code.unaligned = "fault" /\ ~BreakpointAt(0)

(***************************************************************************)
(* Clock-derived predicates of the obfuscation layer                       *)
(***************************************************************************)
opaque_true(now) == (now > 0) \/ (now <= 0)
opaque_false(now) == now < 0

(***************************************************************************)
(* Kernel primitives                                                       *)
(***************************************************************************)
\* /proc/self/status as the kernel writes it for the current traced state
TracerPidText(traced) ==
    CASE traced = "none" -> <<"0">>
      [] traced = "parent" -> <<"6","1","2">>
      [] traced = "debugger" -> <<"4","7","1","1">>

\* ptrace(PTRACE_TRACEME, 0, 1, 0): refused with EPERM when the process is
\* already traced, fails otherwise when the request is unavailable, and on
\* success leaves the process traced by its parent
ptrace_TRACEME(P) ==
    IF ~env.ptraceOk THEN [rc |-> -1, errno |-> "ENOSYS", proc |-> P]
    ELSE IF P.traced # "none" THEN [rc |-> -1, errno |-> "EPERM", proc |-> P]
    ELSE [rc |-> 0, errno |-> "", proc |-> [P EXCEPT !.traced = "parent"]]

\* ptrace(PTRACE_DETACH, 0, 1, 0) issued by the process itself.  Linux finds
\* no tracee with pid 0 and answers ESRCH; the code expects it to undo
\* PTRACE_TRACEME.  env.detachUndoes selects which of the two the run sees.
\* It never removes an external debugger.
ptrace_DETACH(P) ==
    IF env.detachUndoes /\ P.traced = "parent"
        THEN [P EXCEPT !.traced = "none"]
        ELSE P

\* prctl(PR_SET_DUMPABLE, 0)
prctl_SET_DUMPABLE(P) ==
    IF env.prctlOk THEN [rc |-> 0, proc |-> [P EXCEPT !.dumpable = FALSE]]
                   ELSE [rc |-> -1, proc |-> P]

\* getenv("DEBUG") || getenv("ANDROID_DEBUG")
getenv_DEBUG == env.envDebug

S_range == <<"7","f","0","0","-","7","f","1","0">>
S_offdev == <<"0","0","0","0","0","0","0","0"," ","f","d",":","0","0"," ","1","2","3","4">>

\* the characters of the names the fixtures use
Chars(s) ==
    CASE s = "/dev/block/dm-0" -> <<"/","d","e","v","/","b","l","o","c","k","/","d","m","-","0">>
      [] s = "/dev/block/by-name/system" -> <<"/","d","e","v","/","b","l","o","c","k","/","b","y",
             "-","n","a","m","e","/","s","y","s","t","e","m">>
      [] s = "/" -> <<"/">>
      [] s = "/system" -> <<"/","s","y","s","t","e","m">>
      [] s = "/system_ext" -> <<"/","s","y","s","t","e","m","_","e","x","t">>
      [] s = "/data" -> <<"/","d","a","t","a">>
      [] s = "ext4" -> <<"e","x","t","4">>
      [] s = "ro" -> <<"r","o">>
      [] s = "rw" -> <<"r","w">>
      [] s = "seclabel" -> <<"s","e","c","l","a","b","e","l">>
      [] s = "r-xp" -> <<"r","-","x","p">>
      [] s = "rw-p" -> <<"r","w","-","p">>
      [] s = "rwxp" -> <<"r","w","x","p">>
      [] s = "rwxs" -> <<"r","w","x","s">>
      [] s = "/dev/ashmem/jit-cache" -> <<"/","d","e","v","/","a","s","h","m","e","m","/","j","i",
             "t","-","c","a","c","h","e">>
      [] s = "/system/lib64/libc.so" -> <<"/","s","y","s","t","e","m","/","l","i","b","6","4","/",
             "l","i","b","c",".","s","o">>
      [] s = "/data/local/tmp/frida-agent-64.so" -> <<"/","d","a","t","a","/","l","o","c","a","l",
             "/","t","m","p","/","f","r","i","d","a","-","a","g","e","n","t","-","6","4",".","s",
             "o">>
      [] s = "/system/lib64/libxposed_art.so" -> <<"/","s","y","s","t","e","m","/","l","i","b","6",
             "4","/","l","i","b","x","p","o","s","e","d","_","a","r","t",".","s","o">>
      [] s = "/data/app/libsubstrate.so" -> <<"/","d","a","t","a","/","a","p","p","/","l","i","b",
             "s","u","b","s","t","r","a","t","e",".","s","o">>
      [] s = "/data/app/cydia.so" -> <<"/","d","a","t","a","/","a","p","p","/","c","y","d","i","a",
             ".","s","o">>
      [] s = "/data/app/libhook.so" -> <<"/","d","a","t","a","/","a","p","p","/","l","i","b","h",
             "o","o","k",".","s","o">>
      [] s = "/data/local/tmp/FRIDA-agent.so" -> <<"/","d","a","t","a","/","l","o","c","a","l","/",
             "t","m","p","/","F","R","I","D","A","-","a","g","e","n","t",".","s","o">>
      [] s = "/frida.so" -> <<"/","f","r","i","d","a",".","s","o">>

\* a long directory prefix of n characters, components of at most 199
Pad(n) == [i \in 1..n |-> IF i % 200 = 0 THEN "/" ELSE "a"]

(***************************************************************************)
(* Fixtures: what the kernel renders from a mount table, a region list and *)
(* a status record.  The detectors see only the rendered text.             *)
(***************************************************************************)
RECURSIVE JoinComma(_)
JoinComma(toks) ==
    IF toks = <<>> THEN <<>>
    ELSE IF Len(toks) = 1 THEN Chars(Head(toks))
    ELSE Chars(Head(toks)) \o <<",">> \o JoinComma(Tail(toks))

\* one line of /proc/mounts: device, mount point, type, options, dump, pass
MountLine(e) ==
    Chars(e.dev) \o <<" ">> \o Chars(e.mp) \o <<" ">> \o Chars(e.type) \o <<" ">>
          \o JoinComma(e.opts) \o <<" ","0"," ","0",NL>>

MountsFile ==
    IF fs.mounts.kind = "absent" THEN NoFile
    ELSE File([i \in 1..Len(fs.mounts.entries) |-> MountLine(fs.mounts.entries[i])])

\* one line of /proc/self/maps: range, permissions, offset, device, inode, path
\* (a path of pad > 0 is "/", pad characters of directories, then the name)
PathText(r) == IF r.pad = 0 THEN Chars(r.path) ELSE <<"/">> \o Pad(r.pad) \o Chars(r.path)
MapsLine(r) ==
    S_range \o <<" ">> \o Chars(r.perms) \o <<" ">> \o S_offdev \o <<" ">>
            \o PathText(r) \o <<NL>>

MapsFile ==
    IF fs.maps.kind = "absent" THEN NoFile
    ELSE File([i \in 1..Len(fs.maps.regions) |-> MapsLine(fs.maps.regions[i])])

\* /proc/self/status: live (from the traced state), absent, or a fixture record
\* with or without a TracerPid field
StatusFile(P) ==
    IF fs.status.kind = "absent" THEN NoFile
    ELSE IF fs.status.kind = "proc"
        THEN File(<< S_Name, S_PPid,
                     S_TracerPid \o <<TAB>> \o TracerPidText(P.traced) \o <<NL>>,
                     S_Uid >>)
    ELSE IF fs.status.hasField
        THEN File(<< S_Name, S_PPid,
                     S_TracerPid \o fs.status.sep \o fs.status.value \o <<NL>>,
                     S_Uid >>)
    ELSE File(<< S_Name, S_PPid, S_Uid >>)

(***************************************************************************)
(* Threads and calls                                                       *)
(***************************************************************************)
Idle == [op |-> "none", pc |-> "idle", ret |-> FALSE, now |-> 0, junk |-> 0,
         req |-> FALSE, det |-> FALSE, miss |-> FALSE]

\* int branch = clock % 3
branch(now) == now % 3

\* the first step of a call
Entry(op, now) ==
    CASE op = "nativePtraceCheck" -> "traceme"
      [] op = "nativeSignalCheck" -> "signal"
      [] op \in {"nativeHardenSystem", "nativeIntegrityCheck", "NativeObfuscator_e"} -> "prctl"
      [] op = "NativeObfuscator_a" ->
            (IF branch(now) = 0 THEN "traceme"
             ELSE IF branch(now) = 1 THEN "scan" ELSE "getenv")
      [] op = "nativeAntiFork" -> "fork"
      [] OTHER -> "scan"

Finish(l, r) == [l EXCEPT !.pc = "done", !.ret = r.ret, !.miss = r.miss]

\* nativePtraceCheck: PTRACE_TRACEME; on EPERM return JNI_TRUE at once;
\* otherwise PTRACE_DETACH and return JNI_FALSE
nativePtraceCheck(l, P) ==
    IF l.pc = "traceme" THEN
        LET r == ptrace_TRACEME(P) IN
        IF r.rc = -1 /\ r.errno = "EPERM"
            THEN [th |-> [l EXCEPT !.pc = "done", !.ret = TRUE, !.req = TRUE],
                  proc |-> r.proc]
            ELSE [th |-> [l EXCEPT !.pc = "detach", !.req = TRUE, !.miss = (r.rc = -1)],
                  proc |-> r.proc]
    ELSE [th |-> [l EXCEPT !.pc = "done", !.ret = FALSE, !.det = TRUE],
          proc |-> ptrace_DETACH(P)]

\* nativeSignalCheck: install the handlers (signal(SIGSTOP, ...) fails, the
\* signal cannot be caught), then read debugger_detected
nativeSignalCheck(l, P) ==
    IF l.pc = "signal" THEN
        [th |-> [l EXCEPT !.pc = "read"],
         proc |-> [P EXCEPT !.onTrap = "sigtrap_handler", !.onCont = "sigstop_handler"]]
    ELSE [th |-> [l EXCEPT !.pc = "done", !.ret = (P.debugger_detected # 0)],
          proc |-> P]

\* nativeHardenSystem: prctl, then PTRACE_TRACEME with no detach
nativeHardenSystem(l, P) ==
    IF l.pc = "prctl" THEN
        LET r == prctl_SET_DUMPABLE(P) IN
        IF r.rc = -1
            THEN [th |-> [l EXCEPT !.pc = "done", !.ret = FALSE], proc |-> r.proc]
            ELSE [th |-> [l EXCEPT !.pc = "traceme"], proc |-> r.proc]
    ELSE
        LET r == ptrace_TRACEME(P) IN
        [th |-> [l EXCEPT !.pc = "done", !.req = TRUE,
                          !.ret = ~(r.rc = -1 /\ r.errno = "EPERM")],
         proc |-> r.proc]

\* nativeIntegrityCheck: failure to clear the dumpable flag is reported
nativeIntegrityCheck(l, P) ==
    LET r == prctl_SET_DUMPABLE(P) IN
    [th |-> [l EXCEPT !.pc = "done", !.ret = (r.rc = -1)], proc |-> r.proc]

\* check_debugger_obfuscated: one of three probes, chosen by the clock
check_debugger_obfuscated(l, P) ==
    IF l.pc = "traceme" THEN
        IF opaque_true(l.now) THEN
            LET r == ptrace_TRACEME(P) IN
            [th |-> [l EXCEPT !.pc = "detach", !.req = TRUE, !.ret = (r.rc = -1),
                              !.miss = (r.rc = -1 /\ r.errno # "EPERM")],
             proc |-> r.proc]
        ELSE [th |-> [l EXCEPT !.pc = "done"], proc |-> P]
    ELSE IF l.pc = "detach" THEN
        [th |-> [l EXCEPT !.pc = "done", !.det = TRUE], proc |-> ptrace_DETACH(P)]
    ELSE IF l.pc = "scan" THEN
        IF opaque_true(l.now)
            THEN [th |-> Finish(l, ObfuscatedTracerPid(StatusFile(P), l.junk)), proc |-> P]
            ELSE [th |-> [l EXCEPT !.pc = "done"], proc |-> P]
    ELSE
        [th |-> [l EXCEPT !.pc = "done", !.ret = (opaque_true(l.now) /\ getenv_DEBUG)],
         proc |-> P]

\* NativeObfuscator_a: the wrapper; a positive result is re-derived as
\* !opaque_false() once check_debugger_obfuscated has returned
NativeObfuscator_a(l, P) ==
    LET r == check_debugger_obfuscated(l, P) IN
    IF r.th.pc = "done" /\ opaque_true(l.now) /\ r.th.ret
        THEN [r EXCEPT !.th.ret = ~opaque_false(l.now)]
        ELSE r

\* NativeObfuscator_e: prctl (result ignored), then signal(SIGTRAP, lambda)
NativeObfuscator_e(l, P) ==
    IF l.pc = "prctl" THEN
        IF opaque_true(l.now)
            THEN [th |-> [l EXCEPT !.pc = "signal"], proc |-> prctl_SET_DUMPABLE(P).proc]
            ELSE [th |-> [l EXCEPT !.pc = "done"], proc |-> P]
    ELSE [th |-> [l EXCEPT !.pc = "done"], proc |-> [P EXCEPT !.onTrap = "lambda"]]

\* fork(): a new child of the process, or -1 when the process limit is
\* reached (terminated children that were not reaped still count)
fork(P) ==
    IF P.children + P.zombies < MaxChildren
        THEN [pid |-> 1, proc |-> [P EXCEPT !.children = @ + 1]]
        ELSE [pid |-> -1, proc |-> P]

\* nativeAntiFork, in the parent: JNI_TRUE when fork returned a child,
\* JNI_FALSE when it failed; the parent makes no further call
nativeAntiFork(l, P) ==
    LET r == fork(P) IN
    [th |-> [l EXCEPT !.pc = "done", !.ret = (r.pid > 0)], proc |-> r.proc]

\* one step of the call in progress
Step(l, P) ==
    CASE l.op = "nativePtraceCheck" -> nativePtraceCheck(l, P)
      [] l.op = "nativeSignalCheck" -> nativeSignalCheck(l, P)
      [] l.op = "nativeHardenSystem" -> nativeHardenSystem(l, P)
      [] l.op = "nativeIntegrityCheck" -> nativeIntegrityCheck(l, P)
      [] l.op = "NativeObfuscator_a" -> NativeObfuscator_a(l, P)
      [] l.op = "NativeObfuscator_e" -> NativeObfuscator_e(l, P)
      [] l.op = "nativeDebuggerCheck" ->
            [th |-> Finish(l, nativeDebuggerCheck(StatusFile(P))), proc |-> P]
      [] l.op = "nativeRootCheck" ->
            [th |-> Finish(l, nativeRootCheck(MountsFile)), proc |-> P]
      [] l.op = "nativeHookCheck" ->
            [th |-> Finish(l, nativeHookCheck(MapsFile)), proc |-> P]
      [] l.op = "nativeAntiFork" -> nativeAntiFork(l, P)
      [] l.op = "nativeMemoryCheck" ->
            [th |-> Finish(l, nativeMemoryCheck(MapsFile)), proc |-> P]
      [] l.op = "nativeBreakpointScan" ->
            IF UnalignedFault
                THEN [th |-> l, proc |-> [P EXCEPT !.alive = "dead"]]
                ELSE [th |-> Finish(l, nativeBreakpointScan), proc |-> P]

(***************************************************************************)
(* Signal handlers.  Each yields the process after the handler and the     *)
(* kinds of operation it executed in handler context.                      *)
(***************************************************************************)
sigtrap_handler(signum, P) ==
    IF signum = "SIGTRAP"
        THEN [proc |-> [P EXCEPT !.debugger_detected = 1], ops |-> {"write_flag", "log"}]
        ELSE [proc |-> P, ops |-> {}]

\* a variant that tests for SIGSTOP alone, the signal that is never caught
sigstop_handler_stopOnly(signum, P) ==
    IF signum = "SIGSTOP"
        THEN [proc |-> [P EXCEPT !.debugger_detected = 1], ops |-> {"write_flag", "log"}]
        ELSE [proc |-> P, ops |-> {}]

sigstop_handler(signum, P) ==
    IF signum = "SIGSTOP" \/ signum = "SIGCONT"
        THEN [proc |-> [P EXCEPT !.debugger_detected = 1], ops |-> {"write_flag", "log"}]
        ELSE [proc |-> P, ops |-> {}]

\* the lambda NativeObfuscator_e installs for SIGTRAP: exit(1)
lambda_handler(signum, P) ==
    IF opaque_true(0)
        THEN [proc |-> [P EXCEPT !.alive = "dead"], ops |-> {"clock", "exit"}]
        ELSE [proc |-> P, ops |-> {"clock"}]

\* the disposition of a signal runs
Dispatch(h, signum, P) ==
    CASE h = "sigtrap_handler" -> sigtrap_handler(signum, P)
      [] h = "sigstop_handler" -> sigstop_handler(signum, P)
      [] h = "lambda" -> lambda_handler(signum, P)

(***************************************************************************)
(* Environments and fixtures                                               *)
(***************************************************************************)
\* every environment: an external debugger attached or not, PTRACE_TRACEME
\* available or not, prctl succeeding or not, DEBUG in the environment or not
Envs == [debugger : BOOLEAN, ptraceOk : BOOLEAN, detachUndoes : BOOLEAN,
         prctlOk : BOOLEAN, envDebug : BOOLEAN]

QuietEnv == [debugger |-> FALSE, ptraceOk |-> TRUE, detachUndoes |-> FALSE,
             prctlOk |-> TRUE, envDebug |-> FALSE]

FreshProc(e) ==
    [traced |-> IF e.debugger THEN "debugger" ELSE "none",
     dumpable |-> TRUE, debugger_detected |-> 0,
     onTrap |-> "SIG_DFL", onCont |-> "SIG_DFL", alive |-> "running",
     children |-> 0, zombies |-> 0]

Absent == [kind |-> "absent"]

\* a code window with no breakpoint in it
CleanCode == [fill |-> 0, patch |-> <<>>, unaligned |-> "load"]

SystemRo == [dev |-> "/dev/block/dm-0", mp |-> "/system", type |-> "ext4",
             opts |-> <<"ro", "seclabel">>]
LibcRegion == [perms |-> "r-xp", path |-> "/system/lib64/libc.so", pad |-> 0]

\* an ordinary device: live status, /system mounted read-only, libc mapped
ProcFs == [status |-> [kind |-> "proc"],
           mounts |-> [kind |-> "table", entries |-> <<SystemRo>>],
           maps |-> [kind |-> "regions", regions |-> <<LibcRegion>>],
           exists |-> {}, code |-> CleanCode]

\* the same with /proc unreadable
NoProcFs == [status |-> Absent, mounts |-> Absent, maps |-> Absent,
             exists |-> {}, code |-> CleanCode]

SeqsUpTo(S, n) == UNION {[1..k -> S] : k \in 0..n}

\* status fixtures: no file, no TracerPid field, or a field whose value is an
\* optional sign and 1..MaxDigits digits after a separator
FixtureDigit == {"0", "1", "7"}
StatusFixtures ==
    {Absent, [kind |-> "record", hasField |-> FALSE, sep |-> <<>>, sign |-> <<>>,
              digits |-> <<>>, value |-> <<>>]}
    \cup {[kind |-> "record", hasField |-> TRUE, sep |-> sp, sign |-> sg,
           digits |-> d, value |-> sg \o d] :
            sp \in {<<TAB>>, <<" ">>, <<>>}, sg \in {<<>>, <<"-">>},
            d \in SeqsUpTo(FixtureDigit, MaxDigits) \ {<<>>}}

\* mount-table fixtures
MountEntries ==
    [dev : {"/dev/block/dm-0", "/dev/block/by-name/system"},
     mp : {"/", "/system", "/system_ext", "/data"},
     type : {"ext4"},
     opts : {<<"ro">>, <<"rw">>, <<"ro", "seclabel">>, <<"rw", "seclabel">>}]
MountFixtures ==
    {Absent} \cup {[kind |-> "table", entries |-> es] : es \in SeqsUpTo(MountEntries, MaxMounts)}

\* memory-map fixtures.  A path may be as long as the file system allows; two
\* fixtures put "frida" across, and just before, the end of the first piece
\* fgets delivers for the line.
MapsPrefixLen == Len(S_range) + 1 + Len(Chars("r-xp")) + 1 + Len(S_offdev) + 1
\* the pad that starts the "frida" of "/frida.so" at character LINE_SIZE - 3 of
\* the line: "fri" ends the first piece, "da" starts the second
StraddlePad == (LINE_SIZE - 3) - MapsPrefixLen - 3
MapsPaths ==
    [path : {"/system/lib64/libc.so", "/data/local/tmp/frida-agent-64.so",
             "/system/lib64/libxposed_art.so", "/data/app/libsubstrate.so",
             "/data/app/cydia.so", "/data/app/libhook.so",
             "/data/local/tmp/FRIDA-agent.so"},
     pad : {0}]
    \cup [path : {"/frida.so"}, pad : {StraddlePad, StraddlePad - 8}]
MapsRegions == {[perms |-> q, path |-> x.path, pad |-> x.pad] :
                    q \in {"r-xp", "rw-p"}, x \in MapsPaths}
MapsFixtures ==
    {Absent} \cup {[kind |-> "regions", regions |-> rs] : rs \in SeqsUpTo(MapsRegions, MaxRegions)}

\* memory-map fixtures of the region audit: private writable+executable
\* regions, shared writable+executable regions and ordinary regions, up to
\* MaxWx of the first kind
Copies(n, r) == [i \in 1..n |-> r]
WxPrivate == [perms |-> "rwxp", path |-> "/dev/ashmem/jit-cache", pad |-> 0]
WxShared == [perms |-> "rwxs", path |-> "/dev/ashmem/jit-cache", pad |-> 0]
AuditFixtures ==
    {Absent} \cup
    {[kind |-> "regions",
      regions |-> Copies(o, LibcRegion) \o Copies(p, WxPrivate) \o Copies(q, WxShared)] :
        o \in 0..1, p \in 0..MaxWx, q \in 0..MaxWx}

\* code-window fixtures: a fill byte, an optional 0xCC at one offset and an
\* optional ARM BKPT encoding (70 00 20 E1, little-endian) at another
ArmBytes(a) == [i \in a..(a + 3) |-> IF i = a THEN 112 ELSE IF i = a + 1 THEN 0
                                      ELSE IF i = a + 2 THEN 32 ELSE 225]
CodePatch(cc, arm) ==
    [i \in (IF cc = -1 THEN {} ELSE {cc}) \cup (IF arm = -1 THEN {} ELSE arm..(arm + 3)) |->
        IF i = cc THEN 204 ELSE ArmBytes(arm)[i]]
CcOffsets == {-1, 0, 1, scan_size \div 2, scan_size - 2, scan_size - 1}
ArmOffsets == {-1, 0, 1, 2, 3, 4, scan_size - 8, scan_size - 4}
CodeFixtures ==
    {[fill |-> f, patch |-> CodePatch(cc, arm), cc |-> cc, arm |-> arm, unaligned |-> u] :
        f \in {0, 144}, cc \in CcOffsets, arm \in ArmOffsets, u \in {"load", "fault"}}

(***************************************************************************)
(* Actions                                                                 *)
(***************************************************************************)
ClockFor(op) == IF op = "NativeObfuscator_a" THEN 0..MaxClock ELSE {0}
JunkFor(op) == IF op = "NativeObfuscator_a" /\ fs.status.kind = "record" THEN {0, 1} ELSE {0}

\* thread t enters JNI entry point op
Call(t, op) ==
    /\ proc.alive = "running"
    /\ th[t].pc = "idle"
    /\ \E now \in ClockFor(op), junk \in JunkFor(op) :
          th' = [th EXCEPT ![t] = [Idle EXCEPT !.op = op, !.pc = Entry(op, now),
                                              !.now = now, !.junk = junk]]
    /\ gh' = [gh EXCEPT ![t] = [t0 |-> proc.traced, snap |-> FALSE, prev |-> FALSE,
                                n |-> IF @.n < 2 THEN @.n + 1 ELSE 2]]
    /\ UNCHANGED <<env, fs, proc, obs>>

\* thread t runs the next step of its call to op
Run(t, op) ==
    /\ proc.alive = "running"
    /\ th[t].op = op
    /\ th[t].pc \notin {"idle", "done"}
    /\ LET r == Step(th[t], proc)
           installing == op = "nativeSignalCheck" /\ th[t].pc = "signal"
           reading == op = "nativeSignalCheck" /\ th[t].pc = "read"
       IN  /\ th' = [th EXCEPT ![t] = r.th]
           /\ proc' = r.proc
           /\ gh' = [gh EXCEPT ![t] = IF reading
                        THEN [@ EXCEPT !.snap = obs.sigSeen, !.prev = obs.suspicious]
                        ELSE @]
           /\ obs' = [obs EXCEPT !.installed = @ \/ installing,
                                 !.suspicious = @ \/ (reading /\ r.th.ret)]
    /\ UNCHANGED <<env, fs>>

\* the call returns to the host
Return(t) ==
    /\ proc.alive = "running"
    /\ th[t].pc = "done"
    /\ th' = [th EXCEPT ![t] = Idle]
    /\ gh' = [gh EXCEPT ![t] = [t0 |-> "none", snap |-> FALSE, prev |-> FALSE, n |-> @.n]]
    /\ UNCHANGED <<env, fs, proc, obs>>

JNI_nativePtraceCheck(t) == Call(t, "nativePtraceCheck") \/ Run(t, "nativePtraceCheck")
JNI_nativeSignalCheck(t) == Call(t, "nativeSignalCheck") \/ Run(t, "nativeSignalCheck")
JNI_nativeDebuggerCheck(t) == Call(t, "nativeDebuggerCheck") \/ Run(t, "nativeDebuggerCheck")
JNI_nativeRootCheck(t) == Call(t, "nativeRootCheck") \/ Run(t, "nativeRootCheck")
JNI_nativeHookCheck(t) == Call(t, "nativeHookCheck") \/ Run(t, "nativeHookCheck")
JNI_nativeMemoryCheck(t) == Call(t, "nativeMemoryCheck") \/ Run(t, "nativeMemoryCheck")
JNI_nativeAntiFork(t) == Call(t, "nativeAntiFork") \/ Run(t, "nativeAntiFork")
JNI_nativeBreakpointScan(t) == Call(t, "nativeBreakpointScan") \/ Run(t, "nativeBreakpointScan")
JNI_nativeIntegrityCheck(t) == Call(t, "nativeIntegrityCheck") \/ Run(t, "nativeIntegrityCheck")
JNI_nativeHardenSystem(t) == Call(t, "nativeHardenSystem") \/ Run(t, "nativeHardenSystem")
JNI_NativeObfuscator_a(t) == Call(t, "NativeObfuscator_a") \/ Run(t, "NativeObfuscator_a")
JNI_NativeObfuscator_e(t) == Call(t, "NativeObfuscator_e") \/ Run(t, "NativeObfuscator_e")

\* nativeAntiFork, in the child: _exit(0); the child stays a terminated,
\* un-reaped child of the process until the process waits for it
ChildExit ==
    /\ proc.children > 0
    /\ proc' = [proc EXCEPT !.children = @ - 1, !.zombies = @ + 1]
    /\ UNCHANGED <<env, fs, th, gh, obs>>

\* a signal arrives: the process-wide observations note it
Signalled(r) ==
    /\ proc' = r.proc
    /\ obs' = [obs EXCEPT !.signalled = TRUE,
                          !.sigSeen = @ \/ obs.installed,
                          !.handlerOps = @ \cup r.ops]
    /\ UNCHANGED <<env, fs, th, gh>>

\* SIGTRAP: the default action ends the process, a handler runs otherwise
SIGTRAP ==
    /\ proc.alive = "running"
    /\ Signalled(IF proc.onTrap = "SIG_DFL"
                    THEN [proc |-> [proc EXCEPT !.alive = "dead"], ops |-> {}]
                    ELSE Dispatch(proc.onTrap, "SIGTRAP", proc))

\* SIGSTOP cannot be caught: the process stops until SIGCONT
SIGSTOP ==
    /\ proc.alive = "running"
    /\ Signalled([proc |-> [proc EXCEPT !.alive = "stopped"], ops |-> {}])

\* SIGCONT resumes the process and runs its handler when one is installed
SIGCONT ==
    /\ proc.alive \in {"running", "stopped"}
    /\ LET resumed == [proc EXCEPT !.alive = "running"] IN
       Signalled(IF proc.onCont = "SIG_DFL"
                    THEN [proc |-> resumed, ops |-> {}]
                    ELSE Dispatch(proc.onCont, "SIGCONT", resumed))

(***************************************************************************)
(* Specifications                                                          *)
(***************************************************************************)
InitWith(e, f, T) ==
    /\ env = e
    /\ fs = f
    /\ proc = FreshProc(e)
    /\ th = [t \in T |-> Idle]
    /\ gh = [t \in T |-> [t0 |-> "none", snap |-> FALSE, prev |-> FALSE, n |-> 0]]
    /\ obs = [installed |-> FALSE, sigSeen |-> FALSE, signalled |-> FALSE,
              suspicious |-> FALSE, handlerOps |-> {}]

\* the process on a device: the host calls the entry points one after another
\* while signals arrive
Init == \E e \in Envs, f \in {ProcFs, NoProcFs} : InitWith(e, f, {"main"})

Next ==
    \/ \E t \in DOMAIN th :
          \/ JNI_nativePtraceCheck(t)
          \/ JNI_nativeSignalCheck(t)
          \/ JNI_nativeDebuggerCheck(t)
          \/ JNI_nativeRootCheck(t)
          \/ JNI_nativeHookCheck(t)
          \/ JNI_nativeIntegrityCheck(t)
          \/ JNI_nativeHardenSystem(t)
          \/ JNI_NativeObfuscator_a(t)
          \/ JNI_NativeObfuscator_e(t)
          \/ Return(t)
    \/ SIGTRAP
    \/ SIGSTOP
    \/ SIGCONT

Spec == Init /\ [][Next]_vars

\* two threads of the host call the detector queries concurrently
Detectors == {"nativePtraceCheck", "nativeSignalCheck", "nativeDebuggerCheck",
              "nativeRootCheck", "nativeHookCheck", "NativeObfuscator_a"}
InitThreads == \E e \in Envs, f \in {ProcFs, NoProcFs} : InitWith(e, f, Threads)
NextThreads ==
    \E t \in DOMAIN th :
        \/ JNI_nativePtraceCheck(t)
        \/ JNI_nativeSignalCheck(t)
        \/ JNI_nativeDebuggerCheck(t)
        \/ JNI_nativeRootCheck(t)
        \/ JNI_nativeHookCheck(t)
        \/ JNI_NativeObfuscator_a(t)
        \/ Return(t)
SpecThreads == InitThreads /\ [][NextThreads]_vars

\* the tracer-id probe over status fixtures
InitStatus == \E s \in StatusFixtures : InitWith(QuietEnv, [ProcFs EXCEPT !.status = s], {"main"})
NextStatus == JNI_nativeDebuggerCheck("main") \/ Return("main")
SpecStatus == InitStatus /\ [][NextStatus]_vars

\* the root check over mount-table fixtures, with and without an su binary
InitMounts ==
    \E m \in MountFixtures, x \in {{}, {"/system/xbin/su"}} :
        InitWith(QuietEnv, [ProcFs EXCEPT !.mounts = m, !.exists = x], {"main"})
NextMounts == JNI_nativeRootCheck("main") \/ Return("main")
SpecMounts == InitMounts /\ [][NextMounts]_vars

\* the loaded-library scan over memory-map fixtures
InitMaps == \E m \in MapsFixtures : InitWith(QuietEnv, [ProcFs EXCEPT !.maps = m], {"main"})
NextMaps == JNI_nativeHookCheck("main") \/ Return("main")
SpecMaps == InitMaps /\ [][NextMaps]_vars

\* the breakpoint scan over code-window fixtures
InitCode == \E c \in CodeFixtures : InitWith(QuietEnv, [ProcFs EXCEPT !.code = c], {"main"})
NextCode == JNI_nativeBreakpointScan("main") \/ Return("main")
SpecCode == InitCode /\ [][NextCode]_vars

\* the region audit over memory-map fixtures
InitAudit == \E m \in AuditFixtures : InitWith(QuietEnv, [ProcFs EXCEPT !.maps = m], {"main"})
NextAudit == JNI_nativeMemoryCheck("main") \/ Return("main")
SpecAudit == InitAudit /\ [][NextAudit]_vars

\* the canary called again and again while its children run
InitFork == \E e \in Envs : InitWith(e, ProcFs, {"main"})
NextFork == JNI_nativeAntiFork("main") \/ Return("main") \/ ChildExit
SpecFork == InitFork /\ [][NextFork]_vars

\* the call thread t would make, run alone in a fresh process of this environment
RECURSIVE RunAlone(_, _)
RunAlone(l, P) ==
    IF l.pc = "done" \/ P.alive # "running" THEN l.ret
    ELSE LET r == Step(l, P) IN RunAlone(r.th, r.proc)

Alone(l) ==
    RunAlone([Idle EXCEPT !.op = l.op, !.pc = Entry(l.op, l.now), !.now = l.now,
                          !.junk = l.junk], FreshProc(env))

(***************************************************************************)
(* Properties                                                              *)
(***************************************************************************)
Done(t) == th[t].pc = "done"

\* C1: every operation that requests trace-self (nativePtraceCheck and the
\* ptrace branch of check_debugger_obfuscated) has issued a detach by the time
\* it returns, on every exit path, and the traced state at return equals the
\* traced state at the call.  (Stated for the kernels on which the detach the
\* code issues does undo PTRACE_TRACEME, the case most favourable to it.)
C1_DetachOnEveryExit ==
    \A t \in DOMAIN th :
        (/\ Done(t)
         /\ env.detachUndoes
         /\ th[t].op \in {"nativePtraceCheck", "NativeObfuscator_a"}
         /\ th[t].req)
        => (th[t].det /\ proc.traced = gh[t].t0)

\* C2: a signal query returns Suspicious exactly when a trap or
\* stop/continue signal has been delivered since the handlers were installed
\* (as of the moment it reads the flag); once a query has returned Suspicious
\* every later query does; and no step ever resets debugger_detected.
C2_SignalLatch ==
    /\ [](\A t \in DOMAIN th :
            (Done(t) /\ th[t].op = "nativeSignalCheck")
            => ((th[t].ret <=> gh[t].snap) /\ (gh[t].prev => th[t].ret)))
    /\ [][proc.debugger_detected = 1 => proc'.debugger_detected = 1]_vars

\* C2 witness: a query returns Suspicious after an earlier query did, a signal
\* having been delivered since the handlers were installed.
C2_Witness ==
    \E t \in DOMAIN th :
        /\ Done(t) /\ th[t].op = "nativeSignalCheck"
        /\ th[t].ret /\ gh[t].prev /\ gh[t].snap

\* C3: whatever runs in signal-handler context is the atomic write of the
\* DetectionFlag and nothing else (no logging, no clock read, no exit).
C3_HandlersOnlyWriteFlag == obs.handlerOps \subseteq {"write_flag"}

C5_Idempotent ==
    \A t \in DOMAIN th :
        (Done(t) /\ env.detachUndoes /\ ~obs.signalled) => th[t].ret = Alone(th[t])

\* C6: a probe whose evidence is missing (its file cannot be opened, or its
\* system call fails for a reason other than permission-denied) returns
\* Clear.
C6_MissingEvidenceIsClear ==
    \A t \in DOMAIN th : (Done(t) /\ th[t].miss) => ~th[t].ret

\* the TracerPid field of the status fixture holds a nonzero integer string
TracerFieldNonzero ==
    /\ fs.status.kind = "record"
    /\ fs.status.hasField
    /\ \E i \in 1..Len(fs.status.digits) : fs.status.digits[i] # "0"

\* C7: nativeDebuggerCheck returns Suspicious exactly when the status record
\* has a TracerPid field holding a nonzero integer string; value 0, an absent
\* field and an absent file all give Clear.  The field values are integer
\* strings of up to MaxDigits digits, optionally signed, as a kernel writes a
\* pid: every one of them fits the int that atoi returns.
C7_TracerPid ==
    \A t \in DOMAIN th :
        (Done(t) /\ th[t].op = "nativeDebuggerCheck")
        => (th[t].ret <=> TracerFieldNonzero)

\* C7 witness: the probe has returned Suspicious on a record whose TracerPid
\* field is nonzero.
C7_Witness ==
    \E t \in DOMAIN th :
        Done(t) /\ th[t].op = "nativeDebuggerCheck" /\ th[t].ret /\ TracerFieldNonzero

\* some mount-table entry has /system as mount point and rw among its options
WritableSystemEntry ==
    /\ fs.mounts.kind = "table"
    /\ \E i \in 1..Len(fs.mounts.entries) :
          /\ fs.mounts.entries[i].mp = "/system"
          /\ \E j \in 1..Len(fs.mounts.entries[i].opts) :
                fs.mounts.entries[i].opts[j] = "rw"

\* C8: with no su binary present, nativeRootCheck returns Suspicious exactly
\* when some mount-table entry has the system partition as mount point and a
\* writable flag among its options.
C8_WritableSystemMount ==
    \A t \in DOMAIN th :
        (Done(t) /\ th[t].op = "nativeRootCheck" /\ fs.exists = {})
        => (th[t].ret <=> WritableSystemEntry)

\* some line of the memory-map listing contains a configured substring
SomeLineNamesTool ==
    /\ fopen(MapsFile)
    /\ \E k \in 1..Len(MapsFile.lines) : \E i \in 1..Len(suspicious_libs) :
          strstr(MapsFile.lines[k], suspicious_libs[i])

\* C9: for every memory-map listing, nativeHookCheck returns Suspicious
\* exactly when some line contains one of the configured substrings.
C9_HookScan ==
    \A t \in DOMAIN th :
        (Done(t) /\ th[t].op = "nativeHookCheck")
        => (th[t].ret <=> SomeLineNamesTool)

\* C10: nativeBreakpointScan returns Suspicious when 0xCC occurs at any offset
\* of the window, the last included, and Clear for every window holding
\* neither 0xCC nor the ARM breakpoint pattern at a 4-byte-aligned offset.
C10_BreakpointScan ==
    \A t \in DOMAIN th :
        (Done(t) /\ th[t].op = "nativeBreakpointScan")
        => LET int3 == \E i \in 0..(scan_size - 1) : memory(i) = 204
               armAligned == \E i \in 0..(scan_size - 4) :
                                 i % 4 = 0 /\ ArmBreakpointAt(i)
           IN  /\ int3 => th[t].ret
               /\ (~int3 /\ ~armAligned) => ~th[t].ret

\* the number of regions of the memory-map fixture marked both writable and
\* executable (w and x in the permission field)
WxRegions ==
    IF fs.maps.kind = "absent" THEN 0
    ELSE Cardinality({i \in 1..Len(fs.maps.regions) :
            fs.maps.regions[i].perms \in {"rwxp", "rwxs"}})

\* C11: nativeMemoryCheck returns Suspicious exactly when more than 5 regions
\* of the listing are marked both writable and executable: 5 give Clear, 6
\* give Suspicious.
C11_WxThreshold ==
    \A t \in DOMAIN th :
        (Done(t) /\ th[t].op = "nativeMemoryCheck")
        => (th[t].ret <=> WxRegions > 5)

\* the result of the call of thread t had the clock read now, in a fresh
\* process of the same environment
AtClock(l, now) ==
    RunAlone([Idle EXCEPT !.op = l.op, !.pc = Entry(l.op, now), !.now = now,
                          !.junk = l.junk], FreshProc(env))

\* C12: in a fixed environment the obfuscated debugger check (NativeObfuscator_a
\* calling check_debugger_obfuscated) returns the same result for every value
\* of the clock from which the branch selector and the opaque predicates are
\* derived.  (Stated for the first call in a process no signal has reached,
\* on a device where ptrace is available and detach undoes PTRACE_TRACEME.)
C12_ClockIndependent ==
    \A t \in DOMAIN th :
        (/\ Done(t)
         /\ env.ptraceOk /\ env.detachUndoes
         /\ th[t].op = "NativeObfuscator_a"
         /\ gh[t].n = 1
         /\ ~obs.signalled)
        => \A now \in 0..MaxClock : th[t].ret = AtClock(th[t], now)

\* C13: every canary call that creates a child also reaps it: once the calls
\* made have returned, no terminated child of the canary remains un-reaped.
C13_CanaryReaped ==
    (\A t \in DOMAIN th : th[t].pc = "idle") => proc.zombies = 0

====
